---- MODULE Spec2Model ----
(***************************************************************************)
(* Mousetrap-I v1.0 (mousetrap-i_v1.0.py): the start-up sequence and the   *)
(* main loop of the trap controller, one step per statement group.         *)
(*                                                                         *)
(* Voltages are integers in hundredths of a volt (2.0 V = 200), which is   *)
(* exactly what round(voltage, 2) leaves to compare.  Pin levels are the   *)
(* values Pin.value() returns: a beam pin reads 0 when the beam is         *)
(* interrupted and 1 when it is clear.  time.sleep(10000000) is modelled   *)
(* as the script being put to sleep for good, as its comments describe.    *)
(* The LED heartbeat drives no decision and is left out.                   *)
(***************************************************************************)
EXTENDS Integers, Sequences, FiniteSets, TLC

VARIABLES
    pc,              \* position of the script
    caller,          \* who called network_connect: "startup" or "daily"
    attempt,         \* loop index of network_connect / sync_ntp_time
    trap_id_key,     \* the two strap pins
    trap_type,       \* 'single', 'dual' or 'tba'
    battery_voltage, \* self.battery_voltage, in 1/100 V
    mode,            \* 'mousetrap' or 'mouse-activity'
    loop_cycles,     \* self.loop_cycles
    trip_count,      \* self.trip_count
    state_A,         \* self.state_A
    state_B,         \* self.state_B
    msgsent,         \* self.msgsent
    status_mins,     \* self.status_mins, the report minute written at line 153
    solenoid1,       \* output pin of solenoid 1
    solenoid2,       \* output pin of solenoid 2
    beam1,           \* break_sensor1.value() as last read by check_sensors
    beam2,           \* break_sensor2.value() as last read by check_sensors
    triggered_A,     \* local of check_sensors
    triggered_B,     \* local of check_sensors
    break_count,     \* local of mouse_detect
    poll,            \* loop index of the sweep in mouse_detect
    rtc_hour,        \* RTC().datetime() hour (GMT)
    rtc_mins,        \* RTC().datetime() minute
    adc_log,         \* the read_u16() values of the running call of get_battery_voltage
    sent,            \* the sendmail calls of the current loop cycle, in order
    pulses,          \* how often solenoid N has been switched on since boot
    sweeps,          \* history: confirmation sweeps started since the script began
    suspended        \* the script has printed 'is suspended' and sleeps

vars == <<pc, caller, attempt, trap_id_key, status_mins, trap_type, battery_voltage, mode,
          loop_cycles, trip_count, state_A, state_B, msgsent, solenoid1,
          solenoid2, beam1, beam2, triggered_A, triggered_B, break_count, poll,
          rtc_hour, rtc_mins, adc_log, sent, pulses, sweeps, suspended>>

ctrl == <<battery_voltage, mode, loop_cycles, trip_count, state_A, state_B, msgsent>>
pins == <<solenoid1, solenoid2, pulses>>
locals == <<beam1, beam2, triggered_A, triggered_B, break_count, poll>>
clock == <<rtc_hour, rtc_mins>>

-----------------------------------------------------------------------------
(* Program constants *)

GMT_OFFSET == 1
status_hour == 12
shipped_status_mins == 0
max_attempts == 10
ntp_max_attempts == 10
battery_floor == 200
battery_low == 420
battery_cal == 5
adc_full_scale == 65535

TRAP_CONFIGS ==
    [k \in {<<0, 0>>, <<0, 1>>, <<1, 0>>, <<1, 1>>} |->
        CASE k = <<0, 0>> -> [name |-> "Mousetrap 1", type |-> "single"]
          [] k = <<0, 1>> -> [name |-> "Mousetrap 2", type |-> "dual"]
          [] k = <<1, 0>> -> [name |-> "Mousetrap 3", type |-> "tba"]
          [] k = <<1, 1>> -> [name |-> "Mousetrap 4", type |-> "dual"]]

(* Bounds of the model *)

\* stands for loop_cycles_1h = 35751: loop cycles between two voltage checks
loop_cycles_1h == 3
\* stands for motion_check_secs = 600: polls of one confirmation sweep
motion_check_secs == 2
\* cap of trip_count
MaxTrips == 2
\* minutes the modelled clock runs on after the report time
ClockSpan == 2

\* raw ADC readings: 1.50 V, 2.00 V, 2.01 V, 3.90 V, 4.20 V
RawReads == {19661, 26214, 26345, 51117, 55049}
\* report minutes a trap can be configured with at line 153
ReportMinutes == {0, 59}
\* the report time as a minute of the day of the RTC (GMT)
ReportMinute == (status_hour - GMT_OFFSET) * 60 + status_mins
TimeOf(m) == <<m \div 60, m % 60>>
\* what the RTC can hold when the script starts or when NTP sets it (GMT):
\* the minute before the report time, or the report time
StartTimes == {TimeOf(ReportMinute - 1), TimeOf(ReportMinute)}
MailResults == {"OK", "Not_OK"}

-----------------------------------------------------------------------------
(* Helpers *)

\* round((raw / 65535) * battery_cal, 2), in 1/100 V, rounding to nearest
Voltage(raw) == (2 * raw * battery_cal * 100 + adc_full_scale) \div (2 * adc_full_scale)

\* a failed send is tried once more
sendmail_Retry(log, kind, body, res) ==
    IF res = "Not_OK"
    THEN Append(Append(log, [kind |-> kind, body |-> body, result |-> res]),
                [kind |-> kind, body |-> body, result |-> res])
    ELSE Append(log, [kind |-> kind, body |-> body, result |-> res])

\* sendmail(subject, message): one attempt, 'OK' or 'Not_OK', never raises;
\* no caller looks at the result
sendmail(log, kind, body, res) ==
    Append(log, [kind |-> kind, body |-> body, result |-> res])

Count(log, kind) == Cardinality({i \in 1..Len(log) : log[i].kind = kind})


\* the floor itself counted as a fitted battery
BatteryPresent_AtLeast(v) == v >= battery_floor

\* line 164: the solenoid batteries are fitted / switched on
BatteryPresent(v) == v > battery_floor

\* the ceiling itself counted as low
BatteryLow_AtMost(v) == v <= battery_low

\* line 166: the voltage is too low to reliably fire the solenoid
BatteryLow(v) == v < battery_low

\* the latch is not consulted: every interruption counts as a trigger
Triggered_NoLatch(b, st) == b = 0

\* lines 174-175: the beam is interrupted and its latch is not yet 2
Triggered(b, st) == b = 0 /\ st # 2

\* the mode is not looked at before firing
Armed_Unchecked == TRUE

\* line 177
Armed == mode = "mousetrap"

\* lines 179, 181, 187, 193: fire only a latch that is still 0
Fire(trig, st) == trig /\ st = 0

\* the guard asks for both latches at 1
SweepGuard_Both == (state_A = 1 /\ state_B = 1) /\ mode = "mousetrap"

\* line 204: guard of the confirmation sweep
SweepGuard == (state_A = 1 \/ state_B = 1) /\ mode = "mousetrap"

\* the latch is re-armed instead of confirmed
Confirm_Reset(st) == IF st = 1 THEN 0 ELSE st

\* every latch is confirmed, fired or not
Confirm_All(st) == 2

\* lines 205-206
Confirm(st) == IF st = 1 THEN 2 ELSE st

\* the test is passed only once the counter is beyond the threshold
SampleDue_Late(n) == n > loop_cycles_1h

\* line 244: the incremented counter has reached the hourly threshold
SampleDue(n) == n = loop_cycles_1h

\* every interrupted beam is counted on its own
CountTrip_PerBeam(n, tA, tB) == n + (IF tA THEN 1 ELSE 0) + (IF tB THEN 1 ELSE 0)

\* line 200: one trip per cycle with a trigger, whichever beams caused it
CountTrip(n, tA, tB) == n + 1

\* only beam 1 is polled in the sweep
PollHit_FirstOnly(b1, b2) == b1 = 0

\* line 212: one poll of the sweep
PollHit(b1, b2) == b1 = 0 \/ b2 = 0

\* the trap type is not looked at
SuspendCondition_NoType == state_A = 2 /\ state_B = 2

\* one confirmed latch is enough
SuspendCondition_Any == trap_type = "single" \/ state_A = 2 \/ state_B = 2

\* line 224: the trap goes to sleep after the sweep
SuspendCondition == trap_type = "single" \/ (state_A = 2 /\ state_B = 2)

\* the sleep is left out and the main loop goes on
AfterSuspend_Return == "loop"

\* line 226: time.sleep(10000000), from which the script does not come back
AfterSuspend == "suspended"

\* the sleep is left out and network_connect returns None to its caller
AfterConnectFail_Return == IF caller = "startup" THEN "ntp" ELSE "status_mail"

\* line 82: time.sleep(10000000) at the end of network_connect, whoever
\* called it; the script does not come back from it
AfterConnectFail == "wifi_sleep"

\* a failed clock synchronisation stops the script
AfterNtpFail_Halt == "ntp_failed"

\* lines 125-126 and 264-268: sync_ntp_time returns (None, None) and __main__
\* goes on to construct the Mousetrap
AfterNtpFail == "construct"

\* msgsent is not looked at
StatusDue_NoFlag(hour, mins) == hour = status_hour /\ mins = status_mins

\* line 229: the programmed reporting time, not yet reported
StatusDue(hour, mins) == hour = status_hour /\ mins = status_mins /\ msgsent = 0

\* line 239: the minute has moved past the reporting minute
StatusReset(mins) == mins - status_mins >= 1

\* the two readings are averaged
SampleResult_Mean(first, second) == (first + second) \div 2

\* lines 160-162: voltage is assigned twice, the second reading stays
SampleResult(first, second) == second

\* line 160: the first read of the ADC
FirstRead(raw) == adc_log' = <<raw>>

\* lines 162-171: the second read, the stored voltage, the mode
get_battery_voltage(raw1, raw2, res) ==
    LET first == Voltage(raw1)
        voltage == SampleResult(first, Voltage(raw2))
    IN  /\ adc_log' = Append(adc_log, raw2)
        /\ battery_voltage' = voltage
        /\ IF BatteryPresent(voltage)
           THEN /\ mode' = "mousetrap"
                /\ sent' = IF BatteryLow(voltage)
                           THEN sendmail(sent, "lowbatt", <<voltage>>, res)
                           ELSE sent
           ELSE /\ mode' = "mouse-activity"
                /\ sent' = sent

\* update() returns (line 285) or sleeps inside mouse_detect (line 226): the
\* locals of check_sensors and mouse_detect are no longer read
ReturnFromUpdate ==
    /\ beam1' = 1
    /\ beam2' = 1
    /\ triggered_A' = FALSE
    /\ triggered_B' = FALSE
    /\ break_count' = 0
    /\ poll' = 0

-----------------------------------------------------------------------------
InitProgram ==
    /\ pc = "boot"
    /\ caller = "startup"
    /\ attempt = 0
    /\ trap_id_key \in {<<0, 0>>, <<0, 1>>, <<1, 0>>, <<1, 1>>}
    /\ trap_type = "unset"
    /\ battery_voltage = 0
    /\ mode = "mousetrap"
    /\ loop_cycles = 0
    /\ trip_count = 0
    /\ state_A = 0
    /\ state_B = 0
    /\ msgsent = 0
    /\ solenoid1 = 0
    /\ solenoid2 = 0
    /\ beam1 = 1
    /\ beam2 = 1
    /\ triggered_A = FALSE
    /\ triggered_B = FALSE
    /\ break_count = 0
    /\ poll = 0
    /\ adc_log = <<>>
    /\ sent = <<>>
    /\ pulses = <<0, 0>>
    /\ sweeps = 0
    /\ suspended = FALSE

\* the script as shipped: status_mins = 0
Init ==
    /\ InitProgram
    /\ status_mins = shipped_status_mins
    /\ \E t \in StartTimes : rtc_hour = t[1] /\ rtc_mins = t[2]

\* the script with line 153 set to any of the report minutes
ConfigInit ==
    /\ InitProgram
    /\ status_mins \in ReportMinutes
    /\ \E t \in StartTimes : rtc_hour = t[1] /\ rtc_mins = t[2]

-----------------------------------------------------------------------------
(* Start-up, lines 251-274 *)

\* line 262: ip = network_connect()
Boot ==
    /\ pc = "boot"
    /\ pc' = "connect"
    /\ caller' = "startup"
    /\ attempt' = 0
    /\ UNCHANGED <<trap_id_key, status_mins, adc_log, trap_type, ctrl, pins, locals, clock, sent, sweeps, suspended>>

\* lines 72-83: one pass of the loop of network_connect
ConnectAttempt ==
    /\ pc = "connect"
    /\ \E ok \in BOOLEAN :
          IF ok
          THEN /\ pc' = IF caller = "startup" THEN "ntp" ELSE "status_mail"
               /\ attempt' = 0
          ELSE /\ attempt' = attempt + 1
               /\ pc' = IF attempt + 1 = max_attempts THEN AfterConnectFail ELSE "connect"
    /\ UNCHANGED <<caller, trap_id_key, status_mins, adc_log, trap_type, ctrl, pins, locals, clock, sent, sweeps, suspended>>

\* lines 117-126: one pass of the loop of sync_ntp_time
NtpAttempt ==
    /\ pc = "ntp"
    /\ \E ok \in BOOLEAN :
          IF ok
          THEN /\ \E t \in StartTimes : rtc_hour' = t[1] /\ rtc_mins' = t[2]
               /\ pc' = "construct"
               /\ attempt' = 0
          ELSE /\ UNCHANGED clock
               /\ attempt' = attempt + 1
               /\ pc' = IF attempt + 1 = ntp_max_attempts THEN AfterNtpFail ELSE "ntp"
    /\ UNCHANGED <<caller, trap_id_key, status_mins, adc_log, trap_type, ctrl, pins, locals, sent, sweeps, suspended>>

\* lines 129-157: Mousetrap.__init__
Construct ==
    /\ pc = "construct"
    /\ trap_type' = TRAP_CONFIGS[trap_id_key].type
    /\ battery_voltage' = 0
    /\ mode' = "mousetrap"
    /\ loop_cycles' = 0
    /\ trip_count' = 0
    /\ state_A' = 0
    /\ state_B' = 0
    /\ msgsent' = 0
    /\ attempt' = 0
    /\ pc' = "init_voltage"
    /\ UNCHANGED <<caller, trap_id_key, status_mins, adc_log, pins, locals, clock, sent, sweeps, suspended>>

\* line 271: get_battery_voltage up to its first read
InitVoltage ==
    /\ pc = "init_voltage"
    /\ \E raw \in RawReads : FirstRead(raw)
    /\ pc' = "init_sample2"
    /\ UNCHANGED <<caller, attempt, trap_id_key, status_mins, trap_type, ctrl, pins, locals,
                   clock, sent, sweeps, suspended>>

\* lines 161-171: the rest of get_battery_voltage, at start-up and in update
SecondRead ==
    /\ pc \in {"init_sample2", "sample2"}
    /\ \E raw \in RawReads, res \in MailResults :
          get_battery_voltage(adc_log[1], raw, res)
    /\ pc' = IF pc = "init_sample2" THEN "startup_mail" ELSE "check_sensors"
    /\ UNCHANGED <<caller, attempt, trap_id_key, status_mins, trap_type, loop_cycles, trip_count,
                   state_A, state_B, msgsent, pins, locals, clock, sweeps, suspended>>

\* lines 272-274
StartupMail ==
    /\ pc = "startup_mail"
    /\ \E res \in MailResults :
          sent' = sendmail(sent, "startup", <<mode, battery_voltage>>, res)
    /\ adc_log' = <<>>
    /\ pc' = "loop"
    /\ UNCHANGED <<caller, attempt, trap_id_key, status_mins, trap_type, ctrl, pins, locals, clock, sweeps, suspended>>

-----------------------------------------------------------------------------
(* One cycle of the main loop, lines 276-286 *)

\* lines 282-284 and 228-230, 239-240: read the clock, send_status up to the
\* call of network_connect
SendStatus ==
    /\ pc = "loop"
    /\ LET hour == rtc_hour + GMT_OFFSET
           mins == rtc_mins
       IN  IF StatusDue(hour, mins)
           THEN /\ pc' = "connect"
                /\ caller' = "daily"
                /\ attempt' = 0
                /\ UNCHANGED msgsent
           ELSE /\ msgsent' = IF StatusReset(mins) THEN 0 ELSE msgsent
                /\ pc' = "update"
                /\ UNCHANGED <<caller, attempt>>
    /\ sent' = <<>>
    /\ UNCHANGED <<trap_id_key, status_mins, adc_log, trap_type, battery_voltage, mode, loop_cycles, trip_count,
                   state_A, state_B, pins, locals, clock, sweeps, suspended>>

\* the status mail reports the battery voltage in both modes
status_message_Voltage == <<mode, battery_voltage>>

\* lines 231-236: the status text names the voltage when the trap is armed,
\* the trip count otherwise
status_message ==
    IF mode = "mousetrap" THEN <<mode, battery_voltage>> ELSE <<mode, trip_count>>

\* lines 231-238: send_status after network_connect has returned
StatusMail ==
    /\ pc = "status_mail"
    /\ \E res \in MailResults :
          sent' = sendmail(sent, "status", status_message, res)
    /\ msgsent' = 1
    /\ pc' = "update"
    /\ UNCHANGED <<caller, attempt, trap_id_key, status_mins, adc_log, trap_type, battery_voltage, mode, loop_cycles,
                   trip_count, state_A, state_B, pins, locals, clock, sweeps, suspended>>

\* lines 243-246 and 160: count the cycle; once an hour get_battery_voltage,
\* up to its first read
Update ==
    /\ pc = "update"
    /\ IF SampleDue(loop_cycles + 1)
       THEN /\ loop_cycles' = 0
            /\ \E raw \in RawReads : FirstRead(raw)
            /\ pc' = "sample2"
       ELSE /\ loop_cycles' = loop_cycles + 1
            /\ pc' = "check_sensors"
            /\ UNCHANGED adc_log
    /\ UNCHANGED <<caller, attempt, trap_id_key, status_mins, trap_type, battery_voltage, mode,
                   trip_count, state_A, state_B, msgsent, pins, locals, clock, sent, sweeps, suspended>>

\* lines 174-182 and 199-201: read the beams, switch the solenoids on or count
CheckSensors ==
    /\ pc = "check_sensors"
    /\ \E b1, b2 \in {0, 1} :
          LET tA == Triggered(b1, state_A)
              tB == Triggered(b2, state_B)
          IN  /\ beam1' = b1
              /\ beam2' = b2
              /\ triggered_A' = tA
              /\ triggered_B' = tB
              /\ IF tA \/ tB
                 THEN IF Armed
                      THEN /\ solenoid1' = IF Fire(tA, state_A) THEN 1 ELSE solenoid1
                           /\ solenoid2' = IF Fire(tB, state_B) THEN 1 ELSE solenoid2
                           /\ pulses' = <<pulses[1] + (IF Fire(tA, state_A) THEN 1 ELSE 0),
                                          pulses[2] + (IF Fire(tB, state_B) THEN 1 ELSE 0)>>
                           /\ pc' = "hold"
                           /\ UNCHANGED trip_count
                      ELSE /\ trip_count < MaxTrips
                           /\ trip_count' = CountTrip(trip_count, tA, tB)
                           /\ pc' = "mouse_detect"
                           /\ UNCHANGED pins
                 ELSE /\ pc' = "mouse_detect"
                      /\ UNCHANGED <<trip_count, pins>>
    /\ adc_log' = <<>>
    /\ UNCHANGED <<caller, attempt, trap_id_key, status_mins, trap_type, battery_voltage, mode, loop_cycles,
                   state_A, state_B, msgsent, break_count, poll, clock, sent, sweeps, suspended>>

\* line 185 is missing: only solenoid 1 is switched off
SolenoidsOff_OnlyFirst ==
    /\ pc = "hold"
    /\ solenoid1' = 0
    /\ pc' = "notify"
    /\ UNCHANGED <<caller, attempt, trap_id_key, status_mins, adc_log, trap_type, ctrl, solenoid2,
                   pulses, locals, clock, sent, sweeps, suspended>>

\* lines 183-185: hold, then both solenoids off
SolenoidsOff ==
    /\ pc = "hold"
    /\ solenoid1' = 0
    /\ solenoid2' = 0
    /\ pc' = "notify"
    /\ UNCHANGED <<caller, attempt, trap_id_key, status_mins, adc_log, trap_type, ctrl, pulses, locals, clock,
                   sent, sweeps, suspended>>

\* lines 187-198: 'beam N has tripped' mails, latches to 1
TripNotify ==
    /\ pc = "notify"
    /\ \E resA, resB \in MailResults :
          LET logA == IF Fire(triggered_A, state_A)
                      THEN sendmail(sent, "trip1", <<>>, resA) ELSE sent
              logB == IF Fire(triggered_B, state_B)
                      THEN sendmail(logA, "trip2", <<>>, resB) ELSE logA
          IN  sent' = logB
    /\ state_A' = IF Fire(triggered_A, state_A) THEN 1 ELSE state_A
    /\ state_B' = IF Fire(triggered_B, state_B) THEN 1 ELSE state_B
    /\ pc' = "mouse_detect"
    /\ UNCHANGED <<caller, attempt, trap_id_key, status_mins, adc_log, trap_type, battery_voltage, mode, loop_cycles,
                   trip_count, msgsent, pins, locals, clock, sweeps, suspended>>

\* lines 204-209: guard of mouse_detect, latches to 2; line 286 when it is skipped
MouseDetect ==
    /\ pc = "mouse_detect"
    /\ IF SweepGuard
       THEN /\ state_A' = Confirm(state_A)
            /\ state_B' = Confirm(state_B)
            /\ break_count' = 0
            /\ poll' = 0
            /\ sweeps' = sweeps + 1
            /\ pc' = "sweep"
            /\ UNCHANGED <<beam1, beam2, triggered_A, triggered_B>>
       ELSE /\ pc' = "loop"
            /\ ReturnFromUpdate
            /\ UNCHANGED <<state_A, state_B, sweeps>>
    /\ UNCHANGED <<caller, attempt, trap_id_key, status_mins, adc_log, trap_type, battery_voltage, mode, loop_cycles,
                   trip_count, msgsent, pins, clock, sent, suspended>>

\* lines 211-214: one poll of the sweep
SweepPoll ==
    /\ pc = "sweep"
    /\ poll < motion_check_secs
    /\ \E b1, b2 \in {0, 1} :
          /\ beam1' = b1
          /\ beam2' = b2
          /\ break_count' = IF PollHit(b1, b2) THEN break_count + 1 ELSE break_count
    /\ poll' = poll + 1
    /\ UNCHANGED <<pc, caller, attempt, trap_id_key, status_mins, adc_log, trap_type, ctrl, pins,
                   triggered_A, triggered_B, clock, sent, sweeps, suspended>>

\* lines 216-226: the verdict mail, then sleep or back to the main loop
SweepVerdict ==
    /\ pc = "sweep"
    /\ poll = motion_check_secs
    /\ \E res \in MailResults :
          sent' = IF break_count # 0
                  THEN sendmail(sent, "mouse", <<>>, res)
                  ELSE sendmail(sent, "notmouse", <<>>, res)
    /\ IF SuspendCondition
       THEN /\ suspended' = TRUE
            /\ pc' = AfterSuspend
       ELSE /\ pc' = "loop"
            /\ UNCHANGED suspended
    /\ ReturnFromUpdate
    /\ UNCHANGED <<caller, attempt, trap_id_key, status_mins, adc_log, trap_type, ctrl, pins, clock,
                   sweeps>>

\* the real-time clock moves on by a minute between two reads of line 282
ClockTick ==
    /\ pc = "loop"
    /\ rtc_hour * 60 + rtc_mins < ReportMinute + ClockSpan
    /\ rtc_mins' = (rtc_mins + 1) % 60
    /\ rtc_hour' = IF rtc_mins = 59 THEN (rtc_hour + 1) % 24 ELSE rtc_hour
    /\ UNCHANGED <<pc, caller, attempt, trap_id_key, status_mins, adc_log, trap_type, ctrl, pins, locals, sent,
                   sweeps, suspended>>

Next ==
    \/ Boot
    \/ ConnectAttempt
    \/ NtpAttempt
    \/ Construct
    \/ InitVoltage
    \/ SecondRead
    \/ StartupMail
    \/ SendStatus
    \/ StatusMail
    \/ Update
    \/ CheckSensors
    \/ SolenoidsOff
    \/ TripNotify
    \/ MouseDetect
    \/ SweepPoll
    \/ SweepVerdict
    \/ ClockTick

Spec == Init /\ [][Next]_vars

\* the same script for every configured report minute
ConfigSpec == ConfigInit /\ [][Next]_vars

\* a running script always executes its next statement
LiveSpec == Spec /\ WF_vars(Next)

-----------------------------------------------------------------------------
(* Properties *)

Hour == rtc_hour + GMT_OFFSET
Mins == rtc_mins
Counting == mode = "mouse-activity"
\* get_battery_voltage has run at least once (line 271)
AfterFirstSample ==
    /\ pc \notin {"boot", "ntp", "construct", "init_voltage", "init_sample2"}
    /\ ~(pc \in {"connect", "wifi_sleep"} /\ caller = "startup")
\* the cycle that has just passed Update sampled the voltage
SampledThisCycle == pc = "check_sensors" /\ loop_cycles = 0
LowBatteryExpected == IF 200 < battery_voltage /\ battery_voltage < 420 THEN 1 ELSE 0

\* C1: in mouse-activity (COUNTING) mode no solenoid is ever energised: a
\* solenoid output is on only in mousetrap mode, and no step taken in
\* mouse-activity mode switches a solenoid on, whatever the beams read.
C1_NoActuationInCounting ==
    /\ [](solenoid1 = 1 \/ solenoid2 = 1 => mode = "mousetrap")
    /\ [][Counting => solenoid1' = 0 /\ solenoid2' = 0 /\ pulses' = pulses]_vars

C1_Witness ==
    /\ pc = "mouse_detect" /\ Counting
    /\ beam1 = 0 /\ beam2 = 0 /\ state_A = 0 /\ state_B = 0
    /\ trip_count = 1 /\ pulses = <<0, 0>>

\* C2: solenoid N is switched on at most once since boot; the sensor read
\* switches it on exactly when the mode is mousetrap, beam N reads
\* interrupted and latch N is 0 (whatever the other channel does); the cycle
\* then sends exactly one 'beam N has tripped' mail, and no other step sends
\* one.
C2_ExactlyOnceActuation ==
    /\ [](/\ pulses[1] <= 1 /\ pulses[2] <= 1
          /\ Count(sent, "trip1") <= 1 /\ Count(sent, "trip2") <= 1)
    /\ [][/\ pc = "check_sensors" =>
               /\ solenoid1' = 1 <=> (mode = "mousetrap" /\ beam1' = 0 /\ state_A = 0)
               /\ solenoid2' = 1 <=> (mode = "mousetrap" /\ beam2' = 0 /\ state_B = 0)
               /\ pulses'[1] - pulses[1] = solenoid1'
               /\ pulses'[2] - pulses[2] = solenoid2'
          /\ pc # "check_sensors" => pulses' = pulses
          /\ pc = "notify" =>
               /\ Count(sent', "trip1") = (IF beam1 = 0 /\ state_A = 0 THEN 1 ELSE 0)
               /\ Count(sent', "trip2") = (IF beam2 = 0 /\ state_B = 0 THEN 1 ELSE 0)
               /\ Len(sent') = Len(sent) + Count(sent', "trip1") + Count(sent', "trip2")
          /\ pc # "notify" =>
               /\ Count(sent', "trip1") <= Count(sent, "trip1")
               /\ Count(sent', "trip2") <= Count(sent, "trip2")
         ]_vars

C2_Witness ==
    /\ pc = "mouse_detect" /\ trap_type = "dual" /\ mode = "mousetrap"
    /\ beam1 = 0 /\ beam2 = 1 /\ state_A = 1 /\ state_B = 0
    /\ pulses = <<1, 0>> /\ Count(sent, "trip1") = 1 /\ Count(sent, "trip2") = 0

\* C3: each latch only moves 0 -> 1 -> 2: it never decreases and never goes
\* from 0 to 2 in one step.
C3_LatchMonotonic ==
    /\ [](state_A \in 0..2 /\ state_B \in 0..2)
    /\ [][/\ state_A' >= state_A /\ state_A' - state_A <= 1
          /\ state_B' >= state_B /\ state_B' - state_B <= 1]_vars

C3_Witness ==
    /\ trap_type = "dual" /\ state_A = 2 /\ state_B = 2 /\ pulses = <<1, 1>>

\* C4: once the trap is suspended it stays suspended, and no later step
\* switches a solenoid, reads a beam, changes a latch or changes trip_count.
C4_SuspendedTerminal ==
    [][suspended =>
         /\ suspended'
         /\ UNCHANGED <<solenoid1, solenoid2, pulses, beam1, beam2, triggered_A,
                        triggered_B, break_count, poll, state_A, state_B, trip_count>>
      ]_vars

C4_Witness == suspended /\ pc = "suspended" /\ trap_type = "dual"

\* C5: on a single trap the step that ends a confirmation sweep suspends the
\* trap, so the main loop is never re-entered with a latch that has left 0;
\* and a sensor read that fires solenoid 1 always leads to the suspended trap.
C5_SingleSuspendsAfterSweep ==
    /\ [](trap_type = "single" /\ pc \in {"loop", "update", "check_sensors"}
            => state_A = 0 /\ state_B = 0)
    /\ [][trap_type = "single" /\ pc = "sweep" /\ poll = motion_check_secs
            => suspended']_vars
    /\ (trap_type = "single" /\ solenoid1 = 1) ~> suspended

C5_Witness ==
    /\ trap_type = "single" /\ suspended /\ state_A = 2 /\ state_B = 0
    /\ pulses = <<1, 0>>

\* C6: on a dual trap, suspended holds only when both latches are 2; while a
\* latch is still 0 the trap is not suspended.
C6_DualSuspendedNeedsBoth ==
    trap_type = "dual" /\ suspended => state_A = 2 /\ state_B = 2

C6_Witness ==
    /\ trap_type = "dual" /\ pc = "loop" /\ ~suspended
    /\ state_A = 2 /\ state_B = 0 /\ Count(sent, "mouse") = 1

\* C7: on a single trap beam 2 is never acted on: latch 2 stays 0 and
\* solenoid 2 is never switched on, whatever beam 2 reads.
C7_SingleIgnoresBeam2 ==
    trap_type = "single" => state_B = 0 /\ solenoid2 = 0 /\ pulses[2] = 0

\* C8: after every voltage sample, and so at every point of the main loop,
\* the mode is mousetrap exactly when the stored voltage is above 2.0 V; a
\* sample of exactly 2.0 V gives mouse-activity.
C8_ModeFollowsVoltage ==
    AfterFirstSample => (mode = "mousetrap" <=> battery_voltage > 200)

C8_Witness ==
    /\ SampledThisCycle /\ battery_voltage = 200 /\ Counting
    /\ Count(sent, "lowbatt") = 0

\* C9: a voltage sample sends exactly one low-battery mail when
\* 2.0 V < v < 4.2 V and none otherwise; a loop cycle that does not sample
\* sends none.
C9_LowBatteryMail ==
    /\ Count(sent, "lowbatt") <= 1
    /\ pc = "startup_mail" => Count(sent, "lowbatt") = LowBatteryExpected
    /\ pc = "check_sensors" =>
         Count(sent, "lowbatt") = (IF SampledThisCycle THEN LowBatteryExpected ELSE 0)

C9_Witness ==
    /\ SampledThisCycle /\ battery_voltage = 390 /\ mode = "mousetrap"
    /\ Count(sent, "lowbatt") = 1

C11_StatusRearms ==
    pc = "update" /\ ~(Hour = status_hour /\ Mins = status_mins) => msgsent = 0

\* C12: when every attempt of the daily reconnect fails the main loop goes
\* on: the script never ends up asleep in network_connect called by
\* send_status.
C12_DailyReconnectNonFatal == ~(pc = "wifi_sleep" /\ caller = "daily")

\* C13: when all attempts of the start-up connection fail the script goes to
\* sleep for good: the failure of the last of the max_attempts attempts leads
\* to the sleep, nothing runs after it, and in it no mail has been sent, the
\* controller has not been constructed or ticked and no solenoid has fired.
C13_StartupExhaustionFatal ==
    /\ [](attempt <= max_attempts)
    /\ [](pc = "wifi_sleep" /\ caller = "startup" =>
            /\ sent = <<>> /\ trap_type = "unset" /\ loop_cycles = 0
            /\ pulses = <<0, 0>> /\ solenoid1 = 0 /\ solenoid2 = 0)
    /\ [][/\ pc = "connect" /\ caller = "startup" /\ attempt' = max_attempts =>
               pc' = "wifi_sleep"
          /\ pc = "wifi_sleep" => UNCHANGED vars
         ]_vars

C13_Witness ==
    /\ pc = "wifi_sleep" /\ caller = "startup" /\ attempt = max_attempts
    /\ sent = <<>> /\ trap_type = "unset"

\* C14: the clock synchronisation is attempted at most ntp_max_attempts (10)
\* times; when the last attempt fails the script goes on to construct the
\* controller, and from there it always takes the first voltage sample, sends
\* the start-up mail and enters the main loop.
C14_NtpFailureNonFatal ==
    /\ [](pc = "ntp" => attempt < 10)
    /\ [][pc = "ntp" /\ attempt' = 10 => pc' = "construct"]_vars
    /\ (pc = "construct" /\ attempt = 10)
         ~> (/\ pc = "loop" /\ trap_type # "unset" /\ AfterFirstSample
             /\ Len(sent) >= 1 /\ sent[Len(sent)].kind = "startup")

C14_Witness == pc = "construct" /\ attempt = 10 /\ caller = "startup"

MailKinds == {"startup", "lowbatt", "status", "trip1", "trip2", "mouse", "notmouse"}
\* this step made a send of kind k that failed
Failed(k) ==
    \E i \in (Len(sent) + 1)..Len(sent') :
        sent'[i].kind = k /\ sent'[i].result = "Not_OK"

\* C15: a failed send is not retried and changes nothing: a loop cycle makes
\* at most one send of each kind, and a step whose send fails does to the
\* controller what the code prescribes for a delivered one (the status mail
\* still sets msgsent, the tripped mail still sets the latch to 1, the
\* verdict mail is still followed by the sleep or the main loop, the
\* low-battery and start-up mails by the next statement).
C15_MailFailureIgnored ==
    /\ [](/\ \A k \in MailKinds : Count(sent, k) <= 1
          /\ Count(sent, "mouse") + Count(sent, "notmouse") <= 1)
    /\ [][/\ Failed("status") => msgsent' = 1 /\ pc' = "update"
          /\ Failed("trip1") => state_A' = 1 /\ pc' = "mouse_detect"
          /\ Failed("trip2") => state_B' = 1 /\ pc' = "mouse_detect"
          /\ Failed("mouse") \/ Failed("notmouse") =>
               /\ suspended' <=> (trap_type = "single" \/ (state_A = 2 /\ state_B = 2))
               /\ pc' = IF suspended' THEN "suspended" ELSE "loop"
          /\ Failed("lowbatt") =>
               /\ mode' = "mousetrap" /\ pc' \in {"startup_mail", "check_sensors"}
               /\ battery_voltage' > 200 /\ battery_voltage' < 420
          /\ Failed("startup") => pc' = "loop"
          /\ pc # "loop" => Len(sent') - Len(sent) \in 0..2
          /\ pc \notin {"loop", "notify"} => Len(sent') - Len(sent) \in 0..1
         ]_vars

C15_Witness ==
    /\ pc = "sweep" /\ state_A = 2 /\ state_B = 0
    /\ \E i \in 1..Len(sent) : sent[i].kind = "trip1" /\ sent[i].result = "Not_OK"

\* C16: every call of get_battery_voltage reads the ADC exactly twice, and
\* the stored voltage, the mode and the low-battery mail follow from the
\* second reading alone, whatever the first one was.
C16_SecondReadOnly ==
    /\ pc \in {"init_sample2", "sample2"} => Len(adc_log) = 1
    /\ pc = "startup_mail" \/ SampledThisCycle =>
         /\ Len(adc_log) = 2
         /\ battery_voltage = Voltage(adc_log[2])
         /\ mode = "mousetrap" <=> Voltage(adc_log[2]) > 200
         /\ Count(sent, "lowbatt") = 1 <=>
              (200 < Voltage(adc_log[2]) /\ Voltage(adc_log[2]) < 420)
    /\ pc \notin {"init_sample2", "sample2", "startup_mail"} /\ ~SampledThisCycle =>
         adc_log = <<>>

C16_Witness ==
    /\ SampledThisCycle /\ adc_log = <<55049, 19661>>
    /\ battery_voltage = 150 /\ Counting /\ sent = <<>>

\* the steps of one cycle of the main loop, in the order of lines 284-285
\* and 243-248
StepRank ==
    [p \in {"loop", "connect", "status_mail", "update", "sample2", "check_sensors",
            "hold", "notify", "mouse_detect", "sweep"} |->
       CASE p = "loop" -> 0
         [] p = "connect" -> 1
         [] p = "status_mail" -> 2
         [] p = "update" -> 3
         [] p = "sample2" -> 4
         [] p = "check_sensors" -> 5
         [] p = "hold" -> 6
         [] p = "notify" -> 7
         [] p = "mouse_detect" -> 8
         [] p = "sweep" -> 9]

InCycle == caller = "daily" \/ pc \notin {"boot", "connect", "wifi_sleep", "ntp", "construct",
                                          "init_voltage", "init_sample2", "startup_mail"}

\* C17 as stated: the status step is the last step of a cycle, so no mail of
\* the cycle follows the status mail, and a status mail of a cycle that also
\* sampled the battery reports the newly stored voltage and mode.
C17_StatusAfterUpdate ==
    /\ \A i \in 1..Len(sent) : sent[i].kind = "status" => i = Len(sent)
    /\ SampledThisCycle =>
         \A i \in 1..Len(sent) :
            sent[i].kind = "status" /\ mode = "mousetrap" =>
               sent[i].body = <<mode, battery_voltage>>

\* C17 amended: the steps of a cycle run in the order daily status, voltage
\* check, sensor evaluation, capture confirmation; the status mail is the
\* first mail of its cycle and reports the mode and the voltage (or the trip
\* count) as stored before the cycle's voltage check and sensor step.
C17_StatusBeforeUpdate ==
    /\ [](\A i \in 1..Len(sent) : sent[i].kind = "status" => i = 1)
    /\ [](pc \in {"update", "sample2"} /\ sent # <<>> =>
            /\ sent[1].kind = "status"
            /\ sent[1].body = IF mode = "mousetrap" THEN <<mode, battery_voltage>>
                                                    ELSE <<mode, trip_count>>)
    /\ [][/\ InCycle /\ pc \in DOMAIN StepRank /\ pc' # pc =>
               \/ pc' \in {"loop", "suspended", "wifi_sleep"}
               \/ pc' \in DOMAIN StepRank /\ StepRank[pc'] > StepRank[pc]
          /\ InCycle' /\ pc' = "update" => pc \in {"loop", "status_mail"}
          /\ pc' = "status_mail" => pc = "connect" /\ sent = <<>>
          /\ pc \in {"update", "sample2", "check_sensors", "hold", "notify", "mouse_detect", "sweep"} =>
               Count(sent', "status") = Count(sent, "status")
          /\ pc \in {"connect", "status_mail"} /\ InCycle =>
               UNCHANGED <<battery_voltage, mode, loop_cycles, trip_count, state_A, state_B,
                           pins, adc_log>>]_vars

C17_Witness ==
    /\ pc = "mouse_detect" /\ loop_cycles = 0 /\ Len(sent) = 3
    /\ sent[1].kind = "status" /\ sent[1].body = <<"mousetrap", 420>>
    /\ sent[2].kind = "lowbatt" /\ battery_voltage = 390
    /\ sent[3].kind = "trip1" /\ pulses = <<1, 0>>

\* C18: once a latch is 2 (confirmed), a cycle in which its beam is
\* interrupted and the other beam is clear switches no solenoid on, sends
\* no mail, does not count a trip (so takes neither branch of check_sensors,
\* with their sleeps) and starts no sweep, in either mode.
C18_ConfirmedIgnoresBeam ==
    [][/\ /\ pc = "check_sensors"
          /\ \/ state_A = 2 /\ beam1' = 0 /\ beam2' = 1
             \/ state_B = 2 /\ beam2' = 0 /\ beam1' = 1
          => /\ pc' = "mouse_detect"
             /\ ~triggered_A' /\ ~triggered_B'
             /\ UNCHANGED <<solenoid1, solenoid2, pulses, trip_count, state_A, state_B, sent>>
       /\ /\ pc = "mouse_detect"
          /\ \/ state_A = 2 /\ beam1 = 0 /\ beam2 = 1
             \/ state_B = 2 /\ beam2 = 0 /\ beam1 = 1
          => /\ pc' = "loop"
             /\ UNCHANGED <<solenoid1, solenoid2, pulses, trip_count, state_A, state_B, sent,
                            sweeps, suspended>>]_vars

C18_Witness ==
    /\ pc = "mouse_detect" /\ state_A = 2 /\ state_B = 0 /\ beam1 = 0 /\ beam2 = 1
    /\ mode = "mouse-activity" /\ trip_count = 0 /\ pulses = <<1, 0>> /\ ~suspended

\* C19: a solenoid is on only during the hold of check_sensors, and the step
\* that ends the hold switches both outputs off, whichever channel fired; so
\* both are off at the top of every loop cycle, in the sweep, while a mail is
\* sent and while the script sleeps after a capture.
C19_SharedActuationWindow ==
    /\ [](pc # "hold" => solenoid1 = 0 /\ solenoid2 = 0)
    /\ [](pc = "hold" => solenoid1 = 1 \/ solenoid2 = 1)
    /\ [][pc = "hold" => /\ pc' = "notify" /\ solenoid1' = 0 /\ solenoid2' = 0
                         /\ UNCHANGED <<pulses, sent, state_A, state_B>>]_vars

C19_Witness ==
    /\ pc = "notify" /\ triggered_B /\ ~triggered_A /\ pulses = <<0, 1>>
    /\ solenoid1 = 0 /\ solenoid2 = 0 /\ trap_type = "dual"

Verdicts(log) == Count(log, "mouse") + Count(log, "notmouse")

Latched(st) == IF st = 2 THEN 1 ELSE 0

\* C20: a sweep starts only when the trap is armed and a latch is 1, and
\* its first step moves every latch at 1 to 2; each poll counts a break
\* exactly when a beam reads interrupted; the sweep ends with one verdict
\* mail, 'mouse' if the count is not zero and 'notmouse' otherwise; there is
\* at most one sweep per confirmed latch, so at most two, and one when both
\* latches fired in the same cycle.
C20_OneVerdictPerSweep ==
    /\ [](/\ sweeps <= Latched(state_A) + Latched(state_B)
          /\ Verdicts(sent) <= 1
          /\ pc = "sweep" => /\ mode = "mousetrap" /\ state_A # 1 /\ state_B # 1
                             /\ state_A = 2 \/ state_B = 2
                             /\ break_count <= poll /\ Verdicts(sent) = 0
          /\ pc = "mouse_detect" /\ state_A = 1 /\ state_B = 1 => sweeps = 0)
    /\ [][/\ pc = "mouse_detect" /\ pc' = "sweep" =>
               /\ mode = "mousetrap" /\ (state_A = 1 \/ state_B = 1)
               /\ state_A' = (IF state_A = 1 THEN 2 ELSE state_A)
               /\ state_B' = (IF state_B = 1 THEN 2 ELSE state_B)
               /\ break_count' = 0 /\ poll' = 0 /\ sweeps' = sweeps + 1
          /\ pc = "mouse_detect" /\ mode = "mousetrap" /\ (state_A = 1 \/ state_B = 1) =>
               pc' = "sweep"
          /\ pc # "mouse_detect" => sweeps' = sweeps
          /\ pc = "sweep" /\ pc' = "sweep" =>
               /\ poll' = poll + 1 /\ sent' = sent
               /\ break_count' = break_count + (IF beam1' = 0 \/ beam2' = 0 THEN 1 ELSE 0)
          /\ pc = "sweep" /\ pc' # "sweep" =>
               /\ poll = motion_check_secs
               /\ Len(sent') = Len(sent) + 1
               /\ sent'[Len(sent')].kind = (IF break_count # 0 THEN "mouse" ELSE "notmouse")
               /\ \A i \in 1..Len(sent) : sent'[i] = sent[i]
          /\ pc # "sweep" => Verdicts(sent') <= Verdicts(sent)]_vars

C20_Witness ==
    /\ pc = "suspended" /\ sweeps = 2 /\ state_A = 2 /\ state_B = 2
    /\ Count(sent, "notmouse") = 1 /\ Count(sent, "mouse") = 0 /\ trap_type = "dual"

\* C21: in mouse-activity mode a cycle in which a beam whose latch is not 2
\* reads interrupted adds exactly 1 to trip_count, also when both beams are
\* interrupted, changes no latch, pulses no solenoid and sends no mail in its
\* sensor and confirmation steps; no other step changes trip_count, so it
\* never decreases.
C21_TripCounting ==
    [][/\ /\ pc = "check_sensors" /\ mode # "mousetrap"
          /\ (beam1' = 0 /\ state_A # 2) \/ (beam2' = 0 /\ state_B # 2)
          => /\ trip_count' = trip_count + 1
             /\ pc' = "mouse_detect"
             /\ UNCHANGED <<state_A, state_B, sent, solenoid1, solenoid2, pulses, sweeps>>
       /\ pc = "mouse_detect" /\ mode # "mousetrap" =>
             /\ pc' = "loop"
             /\ UNCHANGED <<trip_count, state_A, state_B, sent, solenoid1, solenoid2, pulses,
                            sweeps, suspended>>
       /\ trip_count' # trip_count =>
             /\ pc = "check_sensors" /\ mode # "mousetrap"
             /\ (beam1' = 0 /\ state_A # 2) \/ (beam2' = 0 /\ state_B # 2)
       /\ trip_count' >= trip_count]_vars

C21_Witness ==
    /\ pc = "mouse_detect" /\ mode = "mouse-activity" /\ beam1 = 0 /\ beam2 = 0
    /\ state_A = 0 /\ state_B = 0 /\ trip_count = 1 /\ sent = <<>> /\ pulses = <<0, 0>>

\* C22: the cycle counter stays in 0 .. loop_cycles_1h - 1; update adds 1
\* to it, and exactly when that makes it loop_cycles_1h it is set back to 0
\* and get_battery_voltage is called (so in cycles H, 2H, ... counted from
\* the counter's start at 0); a cycle that does not sample leaves
\* battery_voltage and mode as they were.
C22_SampleCadence ==
    /\ [](0 <= loop_cycles /\ loop_cycles < loop_cycles_1h)
    /\ [](pc = "sample2" => loop_cycles = 0 /\ Len(adc_log) = 1)
    /\ [][/\ pc = "update" =>
               IF loop_cycles + 1 = loop_cycles_1h
               THEN loop_cycles' = 0 /\ pc' = "sample2"
               ELSE loop_cycles' = loop_cycles + 1 /\ pc' = "check_sensors" /\ adc_log' = <<>>
          /\ pc' = "sample2" => pc = "update" /\ loop_cycles + 1 = loop_cycles_1h
          /\ pc = "sample2" => pc' = "check_sensors" /\ Len(adc_log') = 2
          /\ pc # "update" => loop_cycles' = loop_cycles
          /\ pc \notin {"sample2", "init_sample2"} =>
               UNCHANGED <<battery_voltage, mode>> /\ Len(adc_log') <= 1]_vars

C22_Witness ==
    /\ pc = "sample2" /\ loop_cycles = 0 /\ Len(adc_log) = 1
    /\ mode = "mouse-activity" /\ state_A = 2 /\ state_B = 0 /\ ~suspended

\* C23: a latch is 1 only between the trip mail and the guard of
\* mouse_detect in the same cycle; the mode does not change from the
\* solenoid pulse to that guard, which starts the sweep and moves the latch
\* to 2; so at the top of every cycle each latch is 0 or 2, and a sweep runs
\* in the cycle of the pulse that caused it.
C23_FiredIsTransient ==
    /\ [](state_A = 1 \/ state_B = 1 => pc = "mouse_detect" /\ mode = "mousetrap")
    /\ [](pc \in {"loop", "update", "sample2", "check_sensors", "status_mail", "suspended"} =>
            state_A \in {0, 2} /\ state_B \in {0, 2})
    /\ [](pc = "sweep" => \/ triggered_A /\ state_A = 2 /\ pulses[1] = 1
                          \/ triggered_B /\ state_B = 2 /\ pulses[2] = 1)
    /\ [][/\ pc \in {"check_sensors", "hold", "notify", "mouse_detect", "sweep"} => mode' = mode
          /\ pc = "check_sensors" /\ pulses' # pulses => pc' = "hold"
          /\ pc = "hold" => pc' = "notify"
          /\ pc = "notify" => pc' = "mouse_detect" /\ (state_A' = 1 \/ state_B' = 1)
          /\ pc = "mouse_detect" /\ (state_A = 1 \/ state_B = 1) =>
               pc' = "sweep" /\ state_A' \in {0, 2} /\ state_B' \in {0, 2}
          /\ pc' = "sweep" /\ pc # "sweep" =>
               pc = "mouse_detect" /\ (state_A = 1 \/ state_B = 1)]_vars

C23_Witness ==
    /\ pc = "mouse_detect" /\ state_A = 1 /\ state_B = 2 /\ pulses = <<1, 1>>
    /\ sweeps = 1 /\ triggered_A /\ ~triggered_B

\* C24: the step that ends the sweep with the suspend condition sends the
\* verdict mail and puts the script to sleep; from then on nothing runs: no
\* voltage sample, no change of the cycle counter or the mode, no reconnect,
\* no low-battery or status mail, so the verdict is the last mail.
C24_SuspensionHaltsDevice ==
    /\ [](suspended <=> pc = "suspended")
    /\ [](suspended =>
            /\ adc_log = <<>> /\ sent # <<>>
            /\ sent[Len(sent)].kind \in {"mouse", "notmouse"}
            /\ Count(sent, "mouse") + Count(sent, "notmouse") = 1)
    /\ [][/\ suspended =>
               UNCHANGED <<pc, caller, attempt, battery_voltage, mode, loop_cycles, adc_log,
                           msgsent, sent, sweeps, suspended>>
          /\ suspended' /\ ~suspended =>
               /\ pc = "sweep" /\ poll = motion_check_secs
               /\ Len(sent') = Len(sent) + 1
               /\ UNCHANGED <<battery_voltage, mode, loop_cycles, msgsent, attempt>>]_vars

C24_Witness ==
    /\ suspended /\ trap_type = "single" /\ loop_cycles = loop_cycles_1h - 1
    /\ sent[Len(sent)].kind = "mouse" /\ Count(sent, "status") = 1

====
